---- MODULE Spec2Model ----
(***************************************************************************)
(* A model of noobtunnel (src/client.go): the relay's handling of control  *)
(* connections (admission gate, tunnel registry, per-port listener,        *)
(* cleanup), its fixed-window rate limiter, the client's connect / relay / *)
(* reconnect loop, and the byte relay over the shared control connection.  *)
(***************************************************************************)
EXTENDS Integers, Sequences, FiniteSets, TLC

\* ------------------------------------------------------------------ bounds

\* Control connections the relay accepts in one run, each handled by its own
\* handleConnection task.
NumSlots == 2
\* Public connections accepted over all tunnels in one run.
MaxPublic == 1
\* Largest per-IP cap / per-IP rate limit a configuration is drawn from.
MaxCap == 2
MaxLimit == 2
\* Clock advances in one run, and checkRateLimit calls in one run of the
\* rate limiter's specification.
MaxTicks == 3
MaxAttempts == 4
\* Messages the relay side writes on one control connection, where the relay
\* is the client's environment.
MaxPeerMsgs == 2
MaxPayload == 2
\* Finished tasks whose slot a later control connection takes over.
MaxRecycles == 1

\* ------------------------------------------------------- program constants

\* time.Minute, in seconds: the rate window (checkRateLimit).
WindowSeconds == 60
\* time.Sleep(5 * time.Second): the client's wait after a failed attempt, and
\* its default wait before reconnecting.
RetrySeconds == 5
\* delay := 5: the wait before reconnecting when reconnect_delay is not set.
DefaultReconnectSeconds == 5
\* conn.SetReadDeadline(time.Now().Add(10 * time.Second)) on the client.
ResponseSeconds == 10
\* 5 * time.Minute, in seconds: the sweep period and the staleness margin.
SweepSeconds == 300
\* timeout_minutes of the default configuration, and the idle timeout it gives.
TimeoutMinutes == 30
TimeoutSeconds == TimeoutMinutes * 60

Slots == 1..NumSlots
Hosts == {"10.0.0.1", "10.0.0.2"}
Ports == {80, 8080}
TickSteps == {1, WindowSeconds, SweepSeconds}
ClientTickSteps == {1, RetrySeconds}
\* The values reconnect_delay is configured with (0: not set).
ReconnectDelays == {0, 3, 7}

\* ------------------------------------------------------------- variables

VARIABLES
    cfg,          \* ServerConfig: Security.Enabled, AllowedPorts, BannedIPs, caps
    pc,           \* position of each handleConnection task
    host,         \* source IP of the control connection a task handles
    req,          \* the first message the client sends on it
    tunnels,      \* Server.tunnels: port -> tunnel (named by its task)
    listenerOpen, \* Tunnel.Listener is bound
    connections,  \* Server.connections: host -> count
    wrote,        \* what the relay has written on each control connection
    pubPending,   \* public connections accepted, CONN not yet written
    pubCount,     \* public connections accepted so far
    cleanupRuns,  \* calls of cleanupTunnel for the task's tunnel
    parsed,       \* the task has read and parsed a TUNNEL request
    verdict,      \* what the admission gate decided for the task's connection
    serverDone,   \* Server.ctx is cancelled
    cancelled,    \* per task: tunnel.cancel() was called
    acceptRunning,\* per task: its acceptTunnelConnections goroutine is running
    kaBeat,       \* per task: parity of the reads of handleTunnel that returned data
    afterRelease, \* per task: its in-use check passed after a tunnel on its port had ended
    recycles,     \* finished tasks whose slot was taken by a later connection
    acceptFailed, \* per task: an Accept of its accept loop returned an error other than
                  \* that of the closed listener
    kaDeadline,   \* per task: the read deadline handleTunnel set on the control connection
    lastClientByte, \* per task: when the client last wrote on the control connection
    lockProg,     \* per goroutine: the lock and socket operations it goes through
    lockPc,       \* per goroutine: the index of its next operation
    held,         \* per goroutine: the locks it holds, each with its mode
    rateLimiter,  \* Server.rateLimiter: host -> [Requests, ResetTime]
    now,          \* time.Now(), seconds
    ticks,        \* clock advances so far
    nextSweep,    \* when cleanupRoutine's ticker fires next
    attemptLog,   \* per host: the checkRateLimit calls, <<time, admitted>>
    ccfg,         \* Client.config: present or nil, Reconnect, ReconnectDelay
    cpc,          \* position of Client.connectAndTunnel
    cconn,        \* Client.conn: "none", "open", "closed"
    inbox,        \* what the relay side wrote on it and the client has not read
    peerClosed,   \* the relay side has closed the control connection
    rdl,          \* the read deadline set on Client.conn
    wakeAt,       \* when the running time.Sleep ends
    response,     \* how the response read in the handshake begins
    activeEndedAt,\* when handleTunnel last returned (-1: never)
    lconn,        \* the connection to the local service: "none", "open", "closed"
    copyDown,     \* the goroutine io.Copy(localConn, c.conn): "none", "running", "done"
    copyUp,       \* the goroutine io.Copy(c.conn, localConn): "none", "running", "done"
    toLocal,      \* the bytes written to the local service
    toRelay,      \* the bytes of the local service written on the control connection
    lost,         \* the payload the signal loop read while copyDown was running
    fromClient,   \* per task: what the client wrote on the control connection, unread
    relaying,     \* per task: running io.Copy(publicConn, tunnel.Conn) calls
    toPublic,     \* per task: the bytes written to its public connections
    kaDiscarded   \* per task: what handleTunnel read while such a copy was running

relayVars == <<pc, host, req, tunnels, listenerOpen, connections, wrote,
               pubPending, pubCount, cleanupRuns, parsed, verdict>>
rateVars == <<rateLimiter, attemptLog>>
clockVars == <<now, ticks, nextSweep>>
clientVars == <<ccfg, cpc, cconn, inbox, peerClosed, rdl, wakeAt, response,
                activeEndedAt>>
localVars == <<lconn, copyDown, copyUp, toLocal, toRelay, lost>>
relayDataVars == <<fromClient, relaying, toPublic, kaDiscarded>>
ctxVars == <<serverDone, cancelled, acceptRunning, kaBeat>>
portVars == <<afterRelease, recycles>>
lockVars == <<lockProg, lockPc, held>>
acceptVars == <<acceptFailed>>
idleVars == <<kaDeadline, lastClientByte>>
vars == <<cfg, idleVars, acceptVars, ctxVars, portVars, lockVars, relayVars, rateVars, clockVars, clientVars, localVars, relayDataVars>>

\* --------------------------------------------------------------- helpers

NoHost == "none"

Get(m, k) == IF k \in DOMAIN m THEN m[k] ELSE 0
Put(m, k, v) == [x \in DOMAIN m \cup {k} |-> IF x = k THEN v ELSE m[x]]
Remove(m, k) == [x \in DOMAIN m \ {k} |-> m[x]]

Max(a, b) == IF a >= b THEN a ELSE b

\* What conn.Read returns for the first message: a read error (the client sent
\* nothing), or a line made of a verb and, possibly, a number.
NoRequest == [verb |-> "EOF", hasNum |-> FALSE, num |-> 0]
Requests ==
    {[verb |-> "TUNNEL", hasNum |-> TRUE, num |-> p] : p \in Ports}
    \cup {[verb |-> "PING", hasNum |-> FALSE, num |-> 0]}

\* fmt.Sscanf(request, "TUNNEL %d", &remotePort): err == nil
ParseOK(r) == r.verb = "TUNNEL" /\ r.hasNum
ParsePort(r) == r.num

NoAddr == <<NoHost, 0>>
ClientAddr(h) == <<host[h], h>>
RemotePort(h) == ParsePort(req[h])

\* What travels on a control connection: a protocol message (its verb, its
\* text, the number and the address formatted into it) or a payload byte.
Msg(kind, text, num, addr) ==
    [kind |-> kind, text |-> text, num |-> num, addr |-> addr]
MsgNotAllowed(p) == Msg("ERROR", "Port %d not allowed", p, NoAddr)
MsgInUse(p, addr) == Msg("ERROR", "Port %d already in use by %s", p, addr)
MsgListenFailed(p) == Msg("ERROR", "failed to listen on port %d", p, NoAddr)
MsgOK(p) == Msg("OK", "Tunnel established on port %d", p, NoAddr)
MsgConn(p) == Msg("CONN", "%d", p, NoAddr)
Data(b) == Msg("DATA", "", b, NoAddr)

\* ------------------------------------------------------- admission gate

\* A whitelist check that forgets that an empty whitelist allows every port.
isPortAllowedStrict(port) == port \in cfg.AllowedPorts

\* Server.isPortAllowed
isPortAllowed(port) ==
    IF cfg.AllowedPorts = {} THEN TRUE ELSE port \in cfg.AllowedPorts

\* A cap test that lets one connection too many in.
checkSecurityOverCap(ip) ==
    IF ~cfg.Enabled THEN TRUE
    ELSE IF ip \in cfg.BannedIPs THEN FALSE
    ELSE IF Get(connections, ip) > cfg.MaxConnectionsPerIP THEN FALSE
    ELSE TRUE

\* Server.checkSecurity
checkSecurity(ip) ==
    IF ~cfg.Enabled THEN TRUE
    ELSE IF ip \in cfg.BannedIPs THEN FALSE
    ELSE IF Get(connections, ip) >= cfg.MaxConnectionsPerIP THEN FALSE
    ELSE TRUE

\* A window test that forgets that a window expires.
WindowOverFirstContact(ip) == ip \notin DOMAIN rateLimiter

\* checkRateLimit: !exists || now.After(rate.ResetTime)
WindowOver(ip) ==
    ip \notin DOMAIN rateLimiter \/ now > rateLimiter[ip].ResetTime

\* checkRateLimit: the entry a new window starts with
FreshWindow == [Requests |-> 1, ResetTime |-> now + WindowSeconds]

\* A limit test that is off by one.
LimitReachedLate(rate) == rate.Requests > cfg.RateLimitPerIP

\* checkRateLimit: rate.Requests >= s.config.Security.RateLimitPerIP
LimitReached(rate) == rate.Requests >= cfg.RateLimitPerIP

\* Server.checkRateLimit: its result
checkRateLimit(ip) ==
    IF ~cfg.Enabled THEN TRUE
    ELSE IF WindowOver(ip) THEN TRUE
    ELSE ~LimitReached(rateLimiter[ip])

\* Server.checkRateLimit: the rate-limiter map it leaves
RateLimiterAfter(ip) ==
    IF ~cfg.Enabled THEN rateLimiter
    ELSE IF WindowOver(ip) THEN Put(rateLimiter, ip, FreshWindow)
    ELSE IF LimitReached(rateLimiter[ip]) THEN rateLimiter
    ELSE Put(rateLimiter, ip,
             [rateLimiter[ip] EXCEPT !.Requests = rateLimiter[ip].Requests + 1])

\* One call of checkRateLimit, under rateMutex: the map changes, and the call
\* is logged with its time and its result.
CallCheckRateLimit(ip) ==
    /\ rateLimiter' = RateLimiterAfter(ip)
    /\ attemptLog' = [attemptLog EXCEPT ![ip] = Append(@, <<now, checkRateLimit(ip)>>)]

\* ------------------------------------------- relay: handleConnection tasks

TunnelOf(h) == [id |-> h, Port |-> RemotePort(h), ClientAddr |-> ClientAddr(h)]

\* A bind that succeeds on a port another listener holds.
PortFreeAlways(port) == TRUE

\* net.Listen("tcp", ":port") succeeds: no listener is bound to the port
PortFree(port) ==
    \A g \in Slots : ~(listenerOpen[g] /\ RemotePort(g) = port)

\* tunnel.Conn is open: until cleanupTunnel closes it
ConnOpen(h) == pc[h] \notin {"idle", "unregister", "decrement", "done"}

\* Server.Start: listener.Accept, go s.handleConnection(conn). Connections are
\* numbered in the order they are accepted.
Accept(h, ip, r) ==
    /\ pc[h] = "idle"
    /\ \A g \in Slots : g < h => pc[g] # "idle"
    /\ pc' = [pc EXCEPT ![h] = "security"]
    /\ host' = [host EXCEPT ![h] = ip]
    /\ req' = [req EXCEPT ![h] = r]
    /\ UNCHANGED <<relayDataVars, localVars, clientVars, cfg, idleVars, acceptVars, lockVars, portVars, ctxVars, parsed, verdict, tunnels, listenerOpen, connections, wrote, pubPending,
                   pubCount, cleanupRuns, rateVars, clockVars>>

\* A gate whose rejection does not return.
GateReturnMissing(ok, next) == next

\* handleConnection: if !check { return }: where the task goes on
GateReturn(ok, next) == IF ok THEN next ELSE "done"

\* handleConnection: if !s.checkSecurity(host) { return }
CheckSecurity(h) ==
    /\ pc[h] = "security"
    /\ pc' = [pc EXCEPT ![h] = GateReturn(checkSecurity(host[h]), "ratelimit")]
    /\ verdict' = [verdict EXCEPT ![h] = IF checkSecurity(host[h]) THEN @ ELSE "refused"]
    /\ UNCHANGED <<relayDataVars, localVars, clientVars, cfg, idleVars, acceptVars, lockVars, portVars, ctxVars, parsed, host, req, tunnels, listenerOpen, connections, wrote,
                   pubPending, pubCount, cleanupRuns, rateVars, clockVars>>

\* handleConnection: if !s.checkRateLimit(host) { return }
RateLimit(h) ==
    /\ pc[h] = "ratelimit"
    /\ rateLimiter' = RateLimiterAfter(host[h])
    /\ pc' = [pc EXCEPT ![h] = GateReturn(checkRateLimit(host[h]), "count")]
    /\ verdict' = [verdict EXCEPT ![h] = IF checkRateLimit(host[h]) THEN "admitted" ELSE "limited"]
    /\ UNCHANGED <<relayDataVars, localVars, clientVars, cfg, idleVars, acceptVars, lockVars, portVars, ctxVars, parsed, host, req, tunnels, listenerOpen, connections, wrote,
                   pubPending, pubCount, cleanupRuns, attemptLog, clockVars>>

\* handleConnection: s.connections[host]++
CountConnection(h) ==
    /\ pc[h] = "count"
    /\ connections' = Put(connections, host[h], Get(connections, host[h]) + 1)
    /\ pc' = [pc EXCEPT ![h] = "read"]
    /\ UNCHANGED <<relayDataVars, localVars, clientVars, cfg, idleVars, acceptVars, lockVars, portVars, ctxVars, parsed, verdict, host, req, tunnels, listenerOpen, wrote, pubPending,
                   pubCount, cleanupRuns, rateVars, clockVars>>

\* handleConnection: read the request, parse it, check the whitelist
ReadRequest(h) ==
    /\ pc[h] = "read"
    /\ IF req[h] = NoRequest \/ ~ParseOK(req[h])
         THEN /\ pc' = [pc EXCEPT ![h] = "done"]
              /\ wrote' = wrote
         ELSE IF ~isPortAllowed(RemotePort(h))
         THEN /\ pc' = [pc EXCEPT ![h] = "done"]
              /\ wrote' = [wrote EXCEPT ![h] = Append(@, MsgNotAllowed(RemotePort(h)))]
         ELSE /\ pc' = [pc EXCEPT ![h] = "check"]
              /\ wrote' = wrote
    /\ parsed' = [parsed EXCEPT ![h] = req[h] # NoRequest /\ ParseOK(req[h])]
    /\ UNCHANGED <<relayDataVars, localVars, clientVars, cfg, idleVars, acceptVars, lockVars, portVars, ctxVars, verdict, host, req, tunnels, listenerOpen, connections, pubPending,
                   pubCount, cleanupRuns, rateVars, clockVars>>

\* A tunnel on the port has ended: its control connection failed or timed out
\* (or its context was done) and its cleanup has started.
Released(port) ==
    \E g \in Slots : cleanupRuns[g] = 1 /\ ParseOK(req[g]) /\ ParsePort(req[g]) = port

\* handleConnection: the in-use check, under tunnelsMutex
CheckInUseStep(h) ==
    /\ pc[h] = "check"
    /\ IF RemotePort(h) \in DOMAIN tunnels
         THEN /\ pc' = [pc EXCEPT ![h] = "done"]
              /\ wrote' = [wrote EXCEPT ![h] =
                     Append(@, MsgInUse(RemotePort(h), tunnels[RemotePort(h)].ClientAddr))]
         ELSE /\ pc' = [pc EXCEPT ![h] = "listen"]
              /\ wrote' = wrote
    /\ UNCHANGED <<relayDataVars, localVars, clientVars, cfg, idleVars, acceptVars, lockVars, recycles, ctxVars, parsed, verdict, host, req, tunnels, listenerOpen, connections, pubPending,
                   pubCount, cleanupRuns, rateVars, clockVars>>

CheckInUse(h) == CheckInUseStep(h) /\ UNCHANGED afterRelease

\* The in-use check, noting whether it passed after a tunnel on the port ended.
CheckInUseNoted(h) ==
    /\ CheckInUseStep(h)
    /\ afterRelease' = [afterRelease EXCEPT ![h] =
                           RemotePort(h) \notin DOMAIN tunnels /\ Released(RemotePort(h))]

\* createTunnel: net.Listen; on error handleConnection replies ERROR <err>
Listen(h) ==
    /\ pc[h] = "listen"
    /\ IF PortFree(RemotePort(h))
         THEN /\ listenerOpen' = [listenerOpen EXCEPT ![h] = TRUE]
              /\ pc' = [pc EXCEPT ![h] = "register"]
              /\ wrote' = wrote
         ELSE /\ listenerOpen' = listenerOpen
              /\ pc' = [pc EXCEPT ![h] = "done"]
              /\ wrote' = [wrote EXCEPT ![h] = Append(@, MsgListenFailed(RemotePort(h)))]
    /\ UNCHANGED <<relayDataVars, localVars, clientVars, cfg, idleVars, acceptVars, lockVars, portVars, ctxVars, parsed, verdict, host, req, tunnels, connections, pubPending, pubCount,
                   cleanupRuns, rateVars, clockVars>>

\* A tunnel context that is not derived from the server's.
TunnelDoneDetached(h) == cancelled[h]

\* createTunnel: ctx, cancel := context.WithCancel(s.ctx); tunnel.ctx.Done()
TunnelDone(h) == serverDone \/ cancelled[h]

\* createTunnel: s.tunnels[port] = tunnel, go s.acceptTunnelConnections(tunnel);
\* the accept loop returns at its first select when the context is done
Register(h) ==
    /\ pc[h] = "register"
    /\ tunnels' = Put(tunnels, RemotePort(h), TunnelOf(h))
    /\ pc' = [pc EXCEPT ![h] = "reply"]
    /\ acceptRunning' = [acceptRunning EXCEPT ![h] = ~TunnelDone(h)]
    /\ UNCHANGED <<relayDataVars, localVars, clientVars, cfg, idleVars, acceptVars, lockVars, portVars, serverDone, cancelled, kaBeat, parsed, verdict, host, req, listenerOpen, connections, wrote, pubPending,
                   pubCount, cleanupRuns, rateVars, clockVars>>

\* handleTunnel returns and the deferred cleanupTunnel starts: tunnel.cancel(),
\* Listener.Close(), Conn.Close()
CleanupStarts(h) ==
    /\ cancelled' = [cancelled EXCEPT ![h] = TRUE]
    /\ listenerOpen' = [listenerOpen EXCEPT ![h] = FALSE]
    /\ cleanupRuns' = [cleanupRuns EXCEPT ![h] = @ + 1]
    /\ pc' = [pc EXCEPT ![h] = "unregister"]

\* handleTunnel: the select at the top of the loop: return when the tunnel's
\* context is done, otherwise set the read deadline and go on to the read
KeepaliveSelect(h) ==
    IF TunnelDone(h)
      THEN /\ CleanupStarts(h)
           /\ kaDeadline' = kaDeadline
      ELSE /\ pc' = [pc EXCEPT ![h] = "keepalive"]
           /\ kaDeadline' = [kaDeadline EXCEPT ![h] = now + TimeoutSeconds]
           /\ UNCHANGED <<cancelled, listenerOpen, cleanupRuns>>

\* handleConnection: conn.Write("OK Tunnel established on port %d"), then
\* s.handleTunnel(tunnel) up to its first read
ReplyOK(h) ==
    /\ pc[h] = "reply"
    /\ wrote' = [wrote EXCEPT ![h] = Append(@, MsgOK(RemotePort(h)))]
    /\ KeepaliveSelect(h)
    /\ UNCHANGED <<relayDataVars, localVars, clientVars, cfg, lastClientByte, acceptVars, lockVars, portVars, serverDone, acceptRunning, kaBeat, parsed, verdict, host, req, tunnels, connections, pubPending,
                   pubCount, rateVars, clockVars>>

\* handleTunnel: the read fails (idle timeout, or the client is gone)
KeepaliveFail(h) ==
    /\ pc[h] = "keepalive"
    /\ CleanupStarts(h)
    /\ UNCHANGED <<relayDataVars, localVars, clientVars, cfg, idleVars, acceptVars, lockVars, portVars, serverDone, acceptRunning, kaBeat, parsed, verdict, host, req, tunnels, connections, wrote, pubPending,
                   pubCount, rateVars, clockVars>>

\* handleTunnel: the read fails with a timeout: its deadline has passed and the
\* client has written nothing that a read could return
KeepaliveTimeout(h) ==
    /\ pc[h] = "keepalive"
    /\ now >= kaDeadline[h]
    /\ fromClient[h] = <<>>
    /\ CleanupStarts(h)
    /\ UNCHANGED <<relayDataVars, localVars, clientVars, cfg, idleVars, acceptVars, lockVars, portVars, serverDone, acceptRunning, kaBeat, parsed, verdict, host, req, tunnels, connections, wrote, pubPending,
                   pubCount, rateVars, clockVars>>

\* handleTunnel: the read returns bytes of the client that are not followed
\* further here; the loop goes back to its select
KeepaliveTraffic(h) ==
    /\ pc[h] = "keepalive"
    /\ kaBeat' = [kaBeat EXCEPT ![h] = 1 - @]
    /\ KeepaliveSelect(h)
    /\ UNCHANGED <<relayDataVars, localVars, clientVars, cfg, lastClientByte, acceptVars, lockVars, portVars, serverDone, acceptRunning, parsed, verdict, host, req, tunnels, connections, wrote, pubPending,
                   pubCount, rateVars, clockVars>>

\* The relay-wide shutdown signal is raised: the cancel of NewServer's context
Shutdown ==
    /\ ~serverDone
    /\ serverDone' = TRUE
    /\ UNCHANGED <<relayDataVars, localVars, clientVars, cfg, idleVars, acceptVars, lockVars, portVars, cancelled, acceptRunning, kaBeat, relayVars, rateVars, clockVars>>

\* A cleanup that leaves the registry as it is.
UnregisterSkipped(h) == tunnels

\* cleanupTunnel: delete(s.tunnels, tunnel.Port)
UnregisterAt(h) == Remove(tunnels, RemotePort(h))

CleanupUnregister(h) ==
    /\ pc[h] = "unregister"
    /\ tunnels' = UnregisterAt(h)
    /\ pc' = [pc EXCEPT ![h] = "decrement"]
    /\ UNCHANGED <<relayDataVars, localVars, clientVars, cfg, idleVars, acceptVars, lockVars, portVars, ctxVars, parsed, verdict, host, req, listenerOpen, connections, wrote, pubPending,
                   pubCount, cleanupRuns, rateVars, clockVars>>

\* A decrement that keeps the entry it brought to zero.
CountAfterCleanupKept(ip) ==
    IF Get(connections, ip) > 0 THEN Put(connections, ip, connections[ip] - 1) ELSE connections

\* cleanupTunnel: the connection count of the client's host; handleConnection
\* returns and its deferred conn.Close() runs
CountAfterCleanup(ip) ==
    LET dec == IF Get(connections, ip) > 0
                 THEN Put(connections, ip, connections[ip] - 1)
                 ELSE connections
    IN  IF Get(dec, ip) = 0 THEN Remove(dec, ip) ELSE dec

CleanupCount(h) ==
    /\ pc[h] = "decrement"
    /\ connections' = CountAfterCleanup(host[h])
    /\ pc' = [pc EXCEPT ![h] = "done"]
    /\ UNCHANGED <<relayDataVars, localVars, clientVars, cfg, idleVars, acceptVars, lockVars, portVars, ctxVars, parsed, verdict, host, req, tunnels, listenerOpen, wrote, pubPending,
                   pubCount, cleanupRuns, rateVars, clockVars>>

\* acceptTunnelConnections: Listener.Accept, go s.handleTunnelConnection, then
\* the select at the top of the loop
AcceptPublic(h) ==
    /\ acceptRunning[h]
    /\ listenerOpen[h]
    /\ pubCount < MaxPublic
    /\ pubCount' = pubCount + 1
    /\ pubPending' = [pubPending EXCEPT ![h] = @ + 1]
    /\ acceptRunning' = [acceptRunning EXCEPT ![h] = ~TunnelDone(h)]
    /\ UNCHANGED <<relayDataVars, localVars, clientVars, cfg, idleVars, acceptVars, lockVars, portVars, serverDone, cancelled, kaBeat, parsed, verdict, pc, host, req, tunnels, listenerOpen, connections, wrote,
                   cleanupRuns, rateVars, clockVars>>

\* acceptTunnelConnections: Listener.Accept fails on the closed listener and
\* the context, cancelled before the close, is done: return
AcceptLoopStops(h) ==
    /\ acceptRunning[h]
    /\ ~listenerOpen[h]
    /\ acceptRunning' = [acceptRunning EXCEPT ![h] = FALSE]
    /\ UNCHANGED <<relayDataVars, localVars, clientVars, cfg, idleVars, acceptVars, lockVars, portVars, serverDone, cancelled, kaBeat, relayVars, rateVars, clockVars>>

\* acceptTunnelConnections: Listener.Accept returns an error while the listener
\* is open and the context is not done: the error is logged and the loop
\* continues
AcceptFails(h) ==
    /\ acceptRunning[h]
    /\ listenerOpen[h]
    /\ ~TunnelDone(h)
    /\ acceptFailed' = [acceptFailed EXCEPT ![h] = TRUE]
    /\ UNCHANGED <<relayDataVars, localVars, clientVars, cfg, idleVars, lockVars, portVars, ctxVars, relayVars, rateVars, clockVars>>

\* handleTunnelConnection: tunnel.Conn.Write("CONN %d") and the two copies
\* start, or the write fails and the public connection is closed
SignalClient(h) ==
    /\ pubPending[h] > 0
    /\ pubPending' = [pubPending EXCEPT ![h] = @ - 1]
    /\ IF ConnOpen(h)
         THEN /\ wrote' = [wrote EXCEPT ![h] = Append(@, MsgConn(RemotePort(h)))]
              /\ relaying' = [relaying EXCEPT ![h] = @ + 1]
         ELSE UNCHANGED <<wrote, relaying>>
    /\ UNCHANGED <<fromClient, toPublic, kaDiscarded, localVars, clientVars, cfg, idleVars, acceptVars, lockVars, portVars, ctxVars,
                   parsed, verdict, pc, host, req, tunnels, listenerOpen, connections,
                   pubCount, cleanupRuns, rateVars, clockVars>>

\* --------------------------------------------- relay: the bytes of a tunnel

Bytes == {1, 2}

\* The client writes a byte on its control connection once its tunnel is up.
ClientWrites(h, b) ==
    /\ pc[h] = "keepalive"
    /\ Len(fromClient[h]) + Len(toPublic[h]) + Len(kaDiscarded[h]) < MaxPayload
    /\ fromClient' = [fromClient EXCEPT ![h] = Append(@, b)]
    /\ lastClientByte' = [lastClientByte EXCEPT ![h] = now]
    /\ UNCHANGED <<relaying, toPublic, kaDiscarded, localVars, clientVars, cfg, kaDeadline, acceptVars, lockVars, portVars, ctxVars,
                   relayVars, rateVars, clockVars>>

\* handleTunnel: tunnel.Conn.Read(buffer) returns k bytes; the loop goes on
\* and the bytes are dropped with the buffer
KeepaliveRead(h, k) ==
    /\ pc[h] = "keepalive"
    /\ k \in 1..Len(fromClient[h])
    /\ fromClient' = [fromClient EXCEPT ![h] = SubSeq(@, k + 1, Len(@))]
    /\ kaDiscarded' = [kaDiscarded EXCEPT ![h] =
                          IF relaying[h] > 0 THEN @ \o SubSeq(fromClient[h], 1, k) ELSE @]
    /\ KeepaliveSelect(h)
    /\ UNCHANGED <<relaying, toPublic, localVars, clientVars, cfg, lastClientByte, acceptVars, lockVars, portVars, serverDone, acceptRunning,
                   kaBeat, host, req, tunnels, connections, wrote, pubPending, pubCount,
                   parsed, verdict, rateVars, clockVars>>

\* handleTunnelConnection: io.Copy(publicConn, tunnel.Conn) reads k bytes from
\* the control connection and writes them to the public connection
RelayToPublic(h, k) ==
    /\ relaying[h] > 0
    /\ ConnOpen(h)
    /\ k \in 1..Len(fromClient[h])
    /\ fromClient' = [fromClient EXCEPT ![h] = SubSeq(@, k + 1, Len(@))]
    /\ toPublic' = [toPublic EXCEPT ![h] = @ \o SubSeq(fromClient[h], 1, k)]
    /\ UNCHANGED <<relaying, kaDiscarded, localVars, clientVars, cfg, idleVars, acceptVars, lockVars, portVars, ctxVars, relayVars,
                   rateVars, clockVars>>

\* handleTunnelConnection: io.Copy(tunnel.Conn, publicConn) reads a byte the
\* public connector wrote and writes it on the control connection
PublicToRelay(h, b) ==
    /\ relaying[h] > 0
    /\ ConnOpen(h)
    /\ Len(wrote[h]) < MaxPeerMsgs + MaxPayload
    /\ wrote' = [wrote EXCEPT ![h] = Append(@, Data(b))]
    /\ UNCHANGED <<relayDataVars, localVars, clientVars, cfg, idleVars, acceptVars, lockVars, portVars, ctxVars, pc, host, req, tunnels,
                   listenerOpen, connections, pubPending, pubCount, cleanupRuns,
                   parsed, verdict, rateVars, clockVars>>

\* handleTunnelConnection: io.Copy(publicConn, tunnel.Conn) returns once the
\* control connection is closed; the deferred publicConn.Close() runs
RelayCopyEnds(h) ==
    /\ relaying[h] > 0
    /\ ~ConnOpen(h)
    /\ relaying' = [relaying EXCEPT ![h] = @ - 1]
    /\ UNCHANGED <<fromClient, toPublic, kaDiscarded, localVars, clientVars, cfg, idleVars, acceptVars, lockVars, portVars, ctxVars,
                   relayVars, rateVars, clockVars>>

\* ------------------------------------------------------------------ clock

Tick(d) ==
    /\ ticks < MaxTicks
    /\ ticks' = ticks + 1
    /\ now' = now + d
    /\ UNCHANGED <<relayDataVars, localVars, clientVars, cfg, idleVars, acceptVars, lockVars, portVars, ctxVars, relayVars, rateVars, nextSweep>>

\* cleanupRoutine: on a tick of its 5-minute ticker, evict the entries whose
\* window closed more than 5 minutes ago
\* A sweep that evicts an entry as soon as its window has opened.
StaleWhileOpen(rate) == now >= rate.ResetTime - WindowSeconds

Stale(rate) == now > rate.ResetTime + SweepSeconds

Sweep ==
    /\ now >= nextSweep
    /\ nextSweep' = nextSweep + SweepSeconds
    /\ rateLimiter' = [ip \in {x \in DOMAIN rateLimiter : ~Stale(rateLimiter[x])}
                         |-> rateLimiter[ip]]
    /\ UNCHANGED <<relayDataVars, localVars, clientVars, cfg, idleVars, acceptVars, lockVars, portVars, ctxVars, relayVars, attemptLog, now, ticks>>

\* ------------------------------------------------- relay: specification

\* The source address of the control connections of this specification.
RelayHosts == {"10.0.0.1"}

\* The configurations the relay runs under: security off or on, a cap of one
\* or of MaxCap connections per IP, a rate limit of one or of MaxLimit, no
\* whitelist or a whitelist of port 80, no ban or a ban on the source address.
Configs ==
    {c \in [Enabled : BOOLEAN, AllowedPorts : {{}, {80}}, BannedIPs : {{}, RelayHosts},
            MaxConnectionsPerIP : {1, MaxCap}, RateLimitPerIP : {1, MaxLimit}] :
        /\ ~c.Enabled =>
              /\ c.MaxConnectionsPerIP = MaxCap /\ c.RateLimitPerIP = MaxLimit
              /\ (c.BannedIPs = {}) = (c.AllowedPorts # {})
        /\ (c.Enabled /\ (c.BannedIPs # {} \/ c.RateLimitPerIP # MaxLimit)) =>
              /\ c.AllowedPorts = {} /\ c.MaxConnectionsPerIP = MaxCap
              /\ c.BannedIPs = {} \/ c.RateLimitPerIP = MaxLimit}

\* The goroutines whose locking is followed: 0 is cleanupRoutine, the others
\* are the handleConnection tasks.
Procs == {0} \cup Slots

InitRelayTasks ==
    /\ pc = [h \in Slots |-> "idle"]
    /\ host = [h \in Slots |-> NoHost]
    /\ req = [h \in Slots |-> NoRequest]
    /\ tunnels = <<>>
    /\ listenerOpen = [h \in Slots |-> FALSE]
    /\ connections = <<>>
    /\ wrote = [h \in Slots |-> <<>>]
    /\ pubPending = [h \in Slots |-> 0]
    /\ pubCount = 0
    /\ cleanupRuns = [h \in Slots |-> 0]
    /\ parsed = [h \in Slots |-> FALSE]
    /\ verdict = [h \in Slots |-> "none"]
    /\ serverDone = FALSE
    /\ cancelled = [h \in Slots |-> FALSE]
    /\ acceptRunning = [h \in Slots |-> FALSE]
    /\ kaBeat = [h \in Slots |-> 0]
    /\ afterRelease = [h \in Slots |-> FALSE]
    /\ recycles = 0
    /\ acceptFailed = [h \in Slots |-> FALSE]
    /\ kaDeadline = [h \in Slots |-> 0]
    /\ lastClientByte = [h \in Slots |-> 0]

InitRelay ==
    /\ InitRelayTasks
    /\ lockProg = [p \in Procs |-> <<>>]
    /\ lockPc = [p \in Procs |-> 1]
    /\ held = [p \in Procs |-> {}]

InitRate ==
    /\ rateLimiter = <<>>
    /\ attemptLog = [ip \in Hosts |-> <<>>]

InitClock ==
    /\ now = 0
    /\ ticks = 0
    /\ nextSweep = SweepSeconds

\* startClient: client := &Client{}
NoClientConfig == [present |-> FALSE, Reconnect |-> FALSE, ReconnectDelay |-> 0]

InitClient ==
    /\ cpc = "dial"
    /\ cconn = "none"
    /\ inbox = <<>>
    /\ peerClosed = FALSE
    /\ rdl = 0
    /\ wakeAt = 0
    /\ response = "none"
    /\ activeEndedAt = -1
    /\ lconn = "none"
    /\ copyDown = "none"
    /\ copyUp = "none"
    /\ toLocal = <<>>
    /\ toRelay = <<>>
    /\ lost = <<>>

InitRelayData ==
    /\ fromClient = [h \in Slots |-> <<>>]
    /\ relaying = [h \in Slots |-> 0]
    /\ toPublic = [h \in Slots |-> <<>>]
    /\ kaDiscarded = [h \in Slots |-> <<>>]

Init ==
    /\ cfg \in Configs
    /\ InitRelay
    /\ InitRate
    /\ InitClock
    /\ ccfg = NoClientConfig
    /\ InitClient
    /\ InitRelayData

Next ==
    \/ \E h \in Slots, ip \in RelayHosts, r \in Requests \cup {NoRequest} : Accept(h, ip, r)
    \/ \E h \in Slots : CheckSecurity(h)
    \/ \E h \in Slots : RateLimit(h)
    \/ \E h \in Slots : CountConnection(h)
    \/ \E h \in Slots : ReadRequest(h)
    \/ \E h \in Slots : CheckInUse(h)
    \/ \E h \in Slots : Listen(h)
    \/ \E h \in Slots : Register(h)
    \/ \E h \in Slots : ReplyOK(h)
    \/ \E h \in Slots : KeepaliveFail(h)
    \/ \E h \in Slots : CleanupUnregister(h)
    \/ \E h \in Slots : CleanupCount(h)
    \/ \E h \in Slots : AcceptPublic(h)
    \/ \E h \in Slots : SignalClient(h)

Spec == Init /\ [][Next]_vars

\* ------------------------------------------------ relay: the claims

\* The tunnel of task h is live: its listener is bound and the registry holds it.
Live(h) ==
    /\ listenerOpen[h]
    /\ RemotePort(h) \in DOMAIN tunnels
    /\ tunnels[RemotePort(h)].id = h

\* Task h has answered OK and its tunnel has not ended.
Established(h) == pc[h] = "keepalive" /\ MsgOK(RemotePort(h)) \in {wrote[h][i] : i \in DOMAIN wrote[h]}

Replies(h) == SelectSeq(wrote[h], LAMBDA m : m.kind \in {"OK", "ERROR"})

Holds(h) ==
    RemotePort(h) \in DOMAIN tunnels /\ tunnels[RemotePort(h)].id = h

C2_InUseReply ==
    [][\A h \in Slots :
          \A g \in Slots \ {h} :
              ( /\ parsed[h] /\ isPortAllowed(RemotePort(h))
                /\ Established(g) /\ RemotePort(g) = RemotePort(h)
                /\ Len(Replies(h)) = 0
                /\ Len(Replies(h)') = 1 )
              => Replies(h)'[1] = MsgInUse(RemotePort(h), ClientAddr(g))]_vars

\* C3: a parsed request for a port outside a non-empty whitelist is answered
\* `ERROR Port p not allowed` and nothing else happens for it (no in-use check,
\* no listener, no registry entry, no cleanup); with an empty whitelist no
\* request is answered `not allowed`.
C3_Whitelist ==
    \A h \in Slots :
        /\ ( parsed[h] /\ cfg.AllowedPorts # {} /\ RemotePort(h) \notin cfg.AllowedPorts )
             => /\ pc[h] = "done"
                /\ wrote[h] = <<MsgNotAllowed(RemotePort(h))>>
                /\ ~listenerOpen[h]
                /\ ~Holds(h)
                /\ cleanupRuns[h] = 0
        /\ cfg.AllowedPorts = {}
             => \A i \in DOMAIN wrote[h] : wrote[h][i].text # "Port %d not allowed"

\* A request for port 8080 was refused by the whitelist {80} while a tunnel
\* was live.
C3_Witness ==
    \E g, h \in Slots :
        /\ g # h
        /\ Live(g)
        /\ parsed[h] /\ RemotePort(h) \notin cfg.AllowedPorts
        /\ wrote[h] = <<MsgNotAllowed(RemotePort(h))>>

\* C9: cleanupTunnel runs exactly once for every tunnel whose handleTunnel
\* returned (idle timeout or client gone, the same return), and never for a
\* connection that got no tunnel; when it removes the port the registry has no entry for the port, afterwards
\* the registry does not hold the tunnel, and no connection counter is negative.
C9_CleanupOnce ==
    /\ [](\A h \in Slots :
            /\ cleanupRuns[h] <= 1
            /\ (pc[h] \in {"unregister", "decrement"}) => cleanupRuns[h] = 1
            /\ (pc[h] = "done") =>
                  (cleanupRuns[h] = 1 <=>
                     (Len(Replies(h)) = 1 /\ Replies(h)[1].kind = "OK"))
            /\ (pc[h] \in {"decrement", "done"}) => ~Holds(h))
    /\ [](\A ip \in DOMAIN connections : connections[ip] >= 0)
    /\ [][\A h \in Slots :
            (pc[h] = "unregister" /\ pc'[h] = "decrement")
                => RemotePort(h) \notin DOMAIN tunnels']_vars

\* Two tunnels on the same port, one after the other, both cleaned up, and
\* the counters back to nothing.
C9_Witness ==
    \E g, h \in Slots :
        /\ g # h
        /\ pc[g] = "done" /\ cleanupRuns[g] = 1
        /\ pc[h] = "done" /\ cleanupRuns[h] = 1
        /\ RemotePort(g) = RemotePort(h)
        /\ tunnels = <<>>
        /\ connections = <<>>

\* C10: on a connection whose request was parsed, the first message the relay
\* writes is its OK or ERROR reply (no CONN before it), and it writes exactly
\* one reply.
C10_ReplyFirst ==
    \A h \in Slots :
        parsed[h] =>
            /\ wrote[h] # <<>> => wrote[h][1].kind \in {"OK", "ERROR"}
            /\ Len(Replies(h)) <= 1
            /\ pc[h] \in {"keepalive", "unregister", "decrement", "done"}
                 => Len(Replies(h)) = 1

\* C11: the gate admits unconditionally with security disabled; otherwise it
\* rejects a banned IP, else an IP whose count is at the cap or above, else it
\* asks the rate limiter; it is evaluated once per control connection, and
\* before the request is read.
C11_GateDecision ==
    [][\A h \in Slots :
        LET ip == host[h]
            passes == \/ ~cfg.Enabled
                      \/ /\ ip \notin cfg.BannedIPs
                         /\ Get(connections, ip) < cfg.MaxConnectionsPerIP
            rated == \/ ~cfg.Enabled
                     \/ ip \notin DOMAIN rateLimiter
                     \/ now > rateLimiter[ip].ResetTime
                     \/ rateLimiter[ip].Requests < cfg.RateLimitPerIP
        IN  /\ (pc[h] = "security" /\ pc'[h] # "security") =>
                  pc'[h] = IF passes THEN "ratelimit" ELSE "done"
            /\ (pc[h] = "ratelimit" /\ pc'[h] # "ratelimit") =>
                  pc'[h] = IF rated THEN "count" ELSE "done"
            /\ (pc[h] # "idle") => (pc'[h] = "security" => pc[h] = "security")
            /\ (pc'[h] = "ratelimit") => pc[h] \in {"security", "ratelimit"}
            /\ (pc'[h] = "read" /\ pc[h] # "read") => pc[h] = "count"
            /\ (parsed'[h] # parsed[h]) => (pc[h] = "read" /\ verdict[h] = "admitted")
      ]_vars

\* One connection was admitted and counted; a second one from the same IP,
\* not banned, was refused at the cap.
C11_Witness ==
    \E g, h \in Slots :
        /\ g # h /\ host[g] = host[h]
        /\ cfg.Enabled /\ host[h] \notin cfg.BannedIPs
        /\ verdict[g] = "admitted" /\ parsed[g]
        /\ verdict[h] = "refused" /\ pc[h] = "done"

\* C12: a control connection rejected by the ban list, the cap or the rate
\* limiter is closed with nothing written on it, gets no listener and no
\* tunnel, and its rejection leaves the registry as it was.
C12_SilentReject ==
    /\ [](\A h \in Slots :
            verdict[h] \in {"refused", "limited"} =>
                /\ pc[h] = "done"
                /\ wrote[h] = <<>>
                /\ ~parsed[h]
                /\ ~listenerOpen[h]
                /\ ~Holds(h)
                /\ cleanupRuns[h] = 0)
    /\ [][\A h \in Slots :
            (pc[h] \in {"security", "ratelimit"} /\ pc'[h] = "done") =>
                (tunnels' = tunnels /\ wrote' = wrote /\ listenerOpen' = listenerOpen)
         ]_vars

\* A tunnel is live, a connection was refused by the rate limiter, and, under
\* another configuration, the ban list refused one.
C12_Witness ==
    \/ \E g, h \in Slots : Live(g) /\ verdict[h] = "limited" /\ pc[h] = "done"
    \/ \E h \in Slots : host[h] \in cfg.BannedIPs /\ verdict[h] = "refused" /\ pc[h] = "done"

\* The control connection of task h has been counted and has not ended.
Counted(h) ==
    pc[h] \in {"read", "check", "listen", "register", "reply", "keepalive",
               "unregister", "decrement"}

\* C16: the connection count of an IP equals the number of control connections
\* of that IP that were counted and have not ended; in particular an IP whose
\* connections have all ended has no entry.
C16_CountMatchesHandled ==
    \A ip \in RelayHosts :
        Get(connections, ip) = Cardinality({h \in Slots : host[h] = ip /\ Counted(h)})

\* C17: with security enabled, the connection count of an IP never exceeds the
\* configured per-IP cap.
C17_CountWithinCap ==
    cfg.Enabled => \A ip \in DOMAIN connections : connections[ip] <= cfg.MaxConnectionsPerIP

\* C18: every entry of the connection-count map is at least 1; an entry
\* appears only with the value 1 (an increment of a missing entry) and an
\* entry that a decrement brings to zero is removed in the same step.
C18_NoZeroEntry ==
    /\ [](\A ip \in DOMAIN connections : connections[ip] >= 1)
    /\ [][\A ip \in RelayHosts :
            /\ (ip \notin DOMAIN connections /\ ip \in DOMAIN connections') =>
                  connections'[ip] = 1
            /\ (ip \in DOMAIN connections /\ connections[ip] = 1
                   /\ connections' # connections /\ Get(connections', ip) < 1) =>
                  ip \notin DOMAIN connections']_vars

\* C18 witness: a tunnel's cleanup has decremented the count of its host to
\* zero and the host has no entry any more.
C18_Witness ==
    \E h \in Slots :
        /\ pc[h] = "done" /\ cleanupRuns[h] = 1
        /\ host[h] \notin DOMAIN connections
        /\ \A g \in Slots \ {h} : pc[g] = "idle"

\* --------------------------------------- rate limiter: specification

\* Calls of checkRateLimit from any source, at any time, with the sweep of
\* cleanupRoutine running beside them.
RateConfigs ==
    {c \in [Enabled : BOOLEAN, AllowedPorts : {{}}, BannedIPs : {{}},
            MaxConnectionsPerIP : {MaxCap}, RateLimitPerIP : 0..MaxLimit] :
        ~c.Enabled => c.RateLimitPerIP = MaxLimit}

Attempts == Len(attemptLog["10.0.0.1"]) + Len(attemptLog["10.0.0.2"])

RateAttempt(ip) ==
    /\ Attempts < MaxAttempts
    /\ CallCheckRateLimit(ip)
    /\ UNCHANGED <<relayDataVars, localVars, clientVars, cfg, idleVars, acceptVars, lockVars, portVars, ctxVars, relayVars, clockVars>>

InitRateSpec ==
    /\ cfg \in RateConfigs
    /\ InitRelay
    /\ InitRate
    /\ InitClock
    /\ ccfg = NoClientConfig
    /\ InitClient
    /\ InitRelayData

NextRate ==
    \/ \E ip \in Hosts : RateAttempt(ip)
    \/ \E d \in TickSteps : Tick(d)
    \/ Sweep

SpecRate == InitRateSpec /\ [][NextRate]_vars

\* The attempts of ip the limiter admitted in the window it now stores for ip.
AdmittedInWindow(ip) ==
    Cardinality({i \in DOMAIN attemptLog[ip] :
        /\ attemptLog[ip][i][2]
        /\ attemptLog[ip][i][1] >= rateLimiter[ip].ResetTime - WindowSeconds
        /\ attemptLog[ip][i][1] <= rateLimiter[ip].ResetTime})

LastAttempt(ip) == attemptLog[ip][Len(attemptLog[ip])]

\* C4 (as claimed): with security enabled, for every configured limit N the
\* attempts of one IP admitted within one window never exceed N.
C4_AtMostNPerWindow ==
    cfg.Enabled =>
        \A ip \in DOMAIN rateLimiter : AdmittedInWindow(ip) <= cfg.RateLimitPerIP

\* C4 (amended): the attempts of one IP admitted within one window never
\* exceed N when N >= 1; the first attempt of a window is admitted whatever N
\* is, so for N <= 0 one attempt per window is admitted.
C4_AtMostNPerWindowFromOne ==
    cfg.Enabled =>
        \A ip \in DOMAIN rateLimiter :
            AdmittedInWindow(ip) <= Max(cfg.RateLimitPerIP, 1)

\* N attempts of one IP were admitted in its window and the next one, in the
\* same window, was rejected.
C4_Witness ==
    /\ cfg.Enabled
    /\ cfg.RateLimitPerIP >= 2
    /\ \E ip \in DOMAIN rateLimiter :
        /\ AdmittedInWindow(ip) = cfg.RateLimitPerIP
        /\ LastAttempt(ip) = <<now, FALSE>>
        /\ now <= rateLimiter[ip].ResetTime

\* C5: a call of checkRateLimit for an IP that has no window, or whose
\* window's reset time is past, is admitted and leaves the window
\* [count 1, reset now + 60 s].
C5_WindowReset ==
    [][\A ip \in Hosts :
          ( /\ cfg.Enabled
            /\ Len(attemptLog'[ip]) = Len(attemptLog[ip]) + 1
            /\ (ip \notin DOMAIN rateLimiter \/ now > rateLimiter[ip].ResetTime) )
          => /\ attemptLog'[ip][Len(attemptLog'[ip])] = <<now, TRUE>>
             /\ ip \in DOMAIN rateLimiter'
             /\ rateLimiter'[ip] = [Requests |-> 1, ResetTime |-> now + WindowSeconds]]_vars

\* An IP was rejected by the limiter and admitted on its next attempt, made
\* after its window's reset time.
C5_Witness ==
    \E ip \in DOMAIN rateLimiter :
        \E i \in DOMAIN attemptLog[ip] :
            /\ i + 1 = Len(attemptLog[ip])
            /\ ~attemptLog[ip][i][2]
            /\ attemptLog[ip][i + 1] = <<now, TRUE>>
            /\ rateLimiter[ip] = [Requests |-> 1, ResetTime |-> now + WindowSeconds]

\* checkRateLimit on a map that is never swept: the entry of a source after
\* the first i calls of its log, each call made at the time the log gives.
NoEntry == [exists |-> FALSE, Requests |-> 0, ResetTime |-> 0]

RECURSIVE NoSweepEntry(_, _)
NoSweepEntry(log, i) ==
    IF i = 0 THEN NoEntry
    ELSE LET e == NoSweepEntry(log, i - 1)
             t == log[i][1]
         IN  IF ~cfg.Enabled THEN e
             ELSE IF ~e.exists \/ t > e.ResetTime
               THEN [exists |-> TRUE, Requests |-> 1, ResetTime |-> t + WindowSeconds]
             ELSE IF LimitReached(e) THEN e
             ELSE [e EXCEPT !.Requests = @ + 1]

\* The decision of call i of the log on the map that is never swept.
NoSweepAdmits(log, i) ==
    LET e == NoSweepEntry(log, i - 1)
        t == log[i][1]
    IN  IF ~cfg.Enabled THEN TRUE
        ELSE IF ~e.exists \/ t > e.ResetTime THEN TRUE
        ELSE ~LimitReached(e)

\* C24: the sweep removes an entry only when its reset time lies more than 5
\* minutes in the past, and every call of checkRateLimit was decided as it
\* would have been on a map that is never swept.
C24_SweepTransparent ==
    /\ [](\A ip \in Hosts : \A i \in DOMAIN attemptLog[ip] :
              attemptLog[ip][i][2] = NoSweepAdmits(attemptLog[ip], i))
    /\ [][\A ip \in DOMAIN rateLimiter :
            ip \notin DOMAIN rateLimiter' => now > rateLimiter[ip].ResetTime + SweepSeconds]_vars

\* C24 witness: a source has called checkRateLimit, once at least rejected,
\* and the sweep has removed its entry.
C24_Witness ==
    /\ cfg.Enabled
    /\ \E ip \in Hosts :
          /\ \E i \in DOMAIN attemptLog[ip] : ~attemptLog[ip][i][2]
          /\ ip \notin DOMAIN rateLimiter

\* ------------------------------------- relay, the bytes: specification

\* One configuration: security on, no whitelist, the larger cap.
DataConfigs ==
    {c \in Configs : /\ c.Enabled /\ c.AllowedPorts = {} /\ c.BannedIPs = {}
                     /\ c.MaxConnectionsPerIP = MaxCap /\ c.RateLimitPerIP = MaxLimit}

\* The request of the control connections of this specification.
DataRequests == {r \in Requests : ParseOK(r) /\ ParsePort(r) = 80}

InitRelayDataSpec ==
    /\ cfg \in DataConfigs
    /\ InitRelay
    /\ InitRate
    /\ InitClock
    /\ ccfg = NoClientConfig
    /\ InitClient
    /\ InitRelayData

NextRelayData ==
    \/ \E h \in Slots, ip \in RelayHosts, r \in DataRequests : Accept(h, ip, r)
    \/ \E h \in Slots : CheckSecurity(h)
    \/ \E h \in Slots : RateLimit(h)
    \/ \E h \in Slots : CountConnection(h)
    \/ \E h \in Slots : ReadRequest(h)
    \/ \E h \in Slots : CheckInUse(h)
    \/ \E h \in Slots : Listen(h)
    \/ \E h \in Slots : Register(h)
    \/ \E h \in Slots : ReplyOK(h)
    \/ \E h \in Slots : KeepaliveFail(h)
    \/ \E h \in Slots : CleanupUnregister(h)
    \/ \E h \in Slots : CleanupCount(h)
    \/ \E h \in Slots : AcceptPublic(h)
    \/ \E h \in Slots : AcceptLoopStops(h)
    \/ \E h \in Slots : SignalClient(h)
    \/ \E h \in Slots, b \in Bytes : ClientWrites(h, b)
    \/ \E h \in Slots, k \in 1..MaxPayload : KeepaliveRead(h, k)
    \/ \E h \in Slots, k \in 1..MaxPayload : RelayToPublic(h, k)
    \/ \E h \in Slots, b \in Bytes : PublicToRelay(h, b)
    \/ \E h \in Slots : RelayCopyEnds(h)

SpecRelayData == InitRelayDataSpec /\ [][NextRelayData]_vars

\* C6: while a tunnel serves a public connection, no byte the client wrote on
\* the control connection is taken by the keepalive loop: every byte read from
\* the control connection is written to the public connection, in order; and
\* every byte of the public connector is written on the control connection.
C6_RelayDelivers ==
    \A h \in Slots :
        /\ kaDiscarded[h] = <<>>
        /\ \A i \in DOMAIN wrote[h] : wrote[h][i].kind = "DATA" => wrote[h][i].num \in Bytes

\* C20: while the accept loop of a tunnel or a relay task of one of its public
\* connections is running, the tunnel is the registry's entry for its port.
C20_EngineWithinEntry ==
    \A h \in Slots :
        (acceptRunning[h] \/ pubPending[h] > 0 \/ relaying[h] > 0) => Holds(h)

\* ------------------------------------------ relay, shutdown: specification

\* The relay configuration of this specification: security switched off.
ShutdownConfigs == {c \in Configs : ~c.Enabled /\ c.BannedIPs = {}}

InitShutdownSpec ==
    /\ cfg \in ShutdownConfigs
    /\ InitRelay
    /\ InitRate
    /\ InitClock
    /\ ccfg = NoClientConfig
    /\ InitClient
    /\ InitRelayData

\* The steps of the handleConnection goroutine of task h up to the
\* registration of its tunnel.
AdmissionStep(h) ==
    \/ CheckSecurity(h)
    \/ RateLimit(h)
    \/ CountConnection(h)
    \/ ReadRequest(h)
    \/ CheckInUse(h)
    \/ Listen(h)
    \/ Register(h)

\* The steps of the goroutines of the tunnel of task h: handleTunnel with its
\* deferred cleanupTunnel, and the return of acceptTunnelConnections.
TunnelStep(h) ==
    \/ ReplyOK(h)
    \/ KeepaliveFail(h)
    \/ KeepaliveTraffic(h)
    \/ CleanupUnregister(h)
    \/ CleanupCount(h)
    \/ AcceptLoopStops(h)

NextShutdown ==
    \/ \E h \in Slots, ip \in RelayHosts, r \in DataRequests : Accept(h, ip, r)
    \/ \E h \in Slots : AdmissionStep(h)
    \/ \E h \in Slots : TunnelStep(h)
    \/ \E h \in Slots : AcceptPublic(h)
    \/ Shutdown

\* The goroutines of a tunnel are scheduled whenever one of them can take a
\* step: a read of the control connection returns (with bytes, or with an error
\* at its deadline) and a blocked Accept returns once its listener is closed.
SpecShutdown ==
    /\ InitShutdownSpec
    /\ [][NextShutdown]_vars
    /\ \A h \in Slots : WF_vars(TunnelStep(h))

\* The tunnel of task h is over: its keepalive loop has returned, its cleanup
\* has run to its end and its accept loop has returned.
TunnelEnded(h) == pc[h] = "done" /\ cleanupRuns[h] = 1 /\ ~acceptRunning[h]

IdleTickSteps == {TimeoutSeconds \div 2}

NextIdle ==
    \/ \E h \in Slots, ip \in RelayHosts, r \in DataRequests : Accept(h, ip, r)
    \/ \E h \in Slots : CheckSecurity(h)
    \/ \E h \in Slots : RateLimit(h)
    \/ \E h \in Slots : CountConnection(h)
    \/ \E h \in Slots : ReadRequest(h)
    \/ \E h \in Slots : CheckInUse(h)
    \/ \E h \in Slots : Listen(h)
    \/ \E h \in Slots : Register(h)
    \/ \E h \in Slots : ReplyOK(h)
    \/ \E h \in Slots : KeepaliveTimeout(h)
    \/ \E h \in Slots : CleanupUnregister(h)
    \/ \E h \in Slots : CleanupCount(h)
    \/ \E h \in Slots : AcceptPublic(h)
    \/ \E h \in Slots : AcceptLoopStops(h)
    \/ \E h \in Slots : SignalClient(h)
    \/ \E h \in Slots, b \in Bytes : ClientWrites(h, b)
    \/ \E h \in Slots, k \in 1..MaxPayload : KeepaliveRead(h, k)
    \/ \E h \in Slots, k \in 1..MaxPayload : RelayToPublic(h, k)
    \/ \E h \in Slots : RelayCopyEnds(h)
    \/ \E d \in IdleTickSteps : Tick(d)

InitIdleSpec == InitShutdownSpec

SpecIdle == InitIdleSpec /\ [][NextIdle]_vars

\* C25: the idle timeout ends a tunnel only when the client has written
\* nothing on the control connection for the whole timeout, whichever reader
\* took the bytes it wrote.
C25_TimeoutOnlyWhenIdle ==
    [][\A h \in Slots :
          (pc[h] = "keepalive" /\ pc'[h] = "unregister") =>
              now >= lastClientByte[h] + TimeoutSeconds]_vars

\* ------------------------------ relay, a failing accept loop: specification

NextAcceptLoop ==
    \/ NextShutdown
    \/ \E h \in Slots : AcceptFails(h)

SpecAcceptLoop == InitShutdownSpec /\ [][NextAcceptLoop]_vars

\* C23: when an Accept of a tunnel's accept loop fails while the tunnel is not
\* cancelled, the tunnel is ended: its cancellation is raised and cleanupTunnel
\* starts, as when the keepalive read fails.
C23_AcceptFailureEndsTunnel ==
    [][\A h \in Slots :
          (~acceptFailed[h] /\ acceptFailed'[h]) =>
              (cancelled'[h] /\ cleanupRuns'[h] = 1 /\ ~listenerOpen'[h])]_vars

\* ------------------------------- relay, the port of a tunnel: specification

\* Server.Start: the task of a connection has returned; a later connection is
\* handled in its place.
Recycle(h) ==
    /\ pc[h] = "done"
    /\ recycles < MaxRecycles
    /\ ~acceptRunning[h] /\ pubPending[h] = 0 /\ relaying[h] = 0
    /\ recycles' = recycles + 1
    /\ pc' = [pc EXCEPT ![h] = "idle"]
    /\ host' = [host EXCEPT ![h] = NoHost]
    /\ req' = [req EXCEPT ![h] = NoRequest]
    /\ wrote' = [wrote EXCEPT ![h] = <<>>]
    /\ parsed' = [parsed EXCEPT ![h] = FALSE]
    /\ verdict' = [verdict EXCEPT ![h] = "none"]
    /\ cleanupRuns' = [cleanupRuns EXCEPT ![h] = 0]
    /\ cancelled' = [cancelled EXCEPT ![h] = FALSE]
    /\ kaBeat' = [kaBeat EXCEPT ![h] = 0]
    /\ afterRelease' = [afterRelease EXCEPT ![h] = FALSE]
    /\ UNCHANGED <<relayDataVars, localVars, clientVars, cfg, idleVars, acceptVars, lockVars, serverDone, acceptRunning,
                   tunnels, listenerOpen, connections, pubPending, pubCount, rateVars,
                   clockVars>>

InitPortSpec == InitShutdownSpec

NextPort ==
    \/ \E h \in Slots, ip \in RelayHosts, r \in DataRequests : Accept(h, ip, r)
    \/ \E h \in Slots : CheckSecurity(h)
    \/ \E h \in Slots : RateLimit(h)
    \/ \E h \in Slots : CountConnection(h)
    \/ \E h \in Slots : ReadRequest(h)
    \/ \E h \in Slots : CheckInUseNoted(h)
    \/ \E h \in Slots : Listen(h)
    \/ \E h \in Slots : Register(h)
    \/ \E h \in Slots : TunnelStep(h)
    \/ \E h \in Slots : Recycle(h)

\* The goroutines of a tunnel are scheduled whenever one of them can take a step.
SpecPort ==
    /\ InitPortSpec
    /\ [][NextPort]_vars
    /\ \A h \in Slots : WF_vars(TunnelStep(h))

\* C15: once the control connection of a tunnel has failed or timed out its
\* cleanup completes; the listener of an ended tunnel is closed whenever the
\* registry no longer holds the tunnel; and a request that passed the in-use
\* check after a tunnel on its port had ended binds the port, and is then
\* answered OK.
C15_PortReleased ==
    /\ \A h \in Slots : (pc[h] = "unregister") ~> (pc[h] \in {"done", "idle"})
    /\ [](\A h \in Slots : (cleanupRuns[h] = 1 /\ ~Holds(h)) => ~listenerOpen[h])
    /\ [][\A h \in Slots :
            /\ (afterRelease[h] /\ pc[h] = "listen" /\ pc'[h] # "listen") =>
                  pc'[h] = "register"
            /\ (afterRelease[h] /\ pc[h] = "reply" /\ pc'[h] # "reply") =>
                  wrote'[h] = Append(wrote[h], MsgOK(RemotePort(h)))]_vars

\* ------------------------------------- relay, the map locks: specification

Mutexes == {"tunnelsMutex", "connMutex", "rateMutex"}

Lock(mu) == [op |-> "Lock", mu |-> mu]
Unlock(mu) == [op |-> "Unlock", mu |-> mu]
RLock(mu) == [op |-> "RLock", mu |-> mu]
RUnlock(mu) == [op |-> "RUnlock", mu |-> mu]
Socket(call) == [op |-> "Socket", mu |-> call]

\* checkSecurity then checkRateLimit, both admitting
GateOps ==
    IF cfg.Enabled
      THEN <<RLock("connMutex"), RUnlock("connMutex"), Lock("rateMutex"), Unlock("rateMutex")>>
      ELSE <<>>

\* handleConnection rejected by checkSecurity on the connection count, or by
\* checkRateLimit; the deferred conn.Close()
RejectedOps ==
    IF cfg.Enabled THEN <<RLock("connMutex"), RUnlock("connMutex"), Socket("Close")>>
                   ELSE <<Socket("Close")>>

LimitedOps == GateOps \o <<Socket("Close")>>

\* handleConnection up to the parsed request: s.connections[host]++, conn.Read
CountAndReadOps == GateOps \o <<Lock("connMutex"), Unlock("connMutex"), Socket("Read")>>

NotAllowedOps == CountAndReadOps \o <<Socket("Write"), Socket("Close")>>

\* An in-use branch that replies before it unlocks.
InUseOpsWriteLocked ==
    CountAndReadOps \o <<Lock("tunnelsMutex"), Socket("Write"), Unlock("tunnelsMutex"),
                         Socket("Close")>>

\* handleConnection: the port is in use: Unlock, then the ERROR reply
InUseOps ==
    CountAndReadOps \o <<Lock("tunnelsMutex"), Unlock("tunnelsMutex"), Socket("Write"),
                         Socket("Close")>>

\* handleConnection: the port is free but createTunnel's net.Listen fails
ListenFailsOps ==
    CountAndReadOps \o <<Lock("tunnelsMutex"), Unlock("tunnelsMutex"), Socket("Listen"),
                         Socket("Write"), Socket("Close")>>

\* handleConnection with a tunnel: createTunnel, the OK reply, handleTunnel's
\* read, cleanupTunnel, the deferred conn.Close()
TunnelOps ==
    CountAndReadOps \o
    <<Lock("tunnelsMutex"), Unlock("tunnelsMutex"), Socket("Listen"),
      Lock("tunnelsMutex"), Unlock("tunnelsMutex"), Socket("Write"), Socket("Read"),
      Socket("Close"), Lock("tunnelsMutex"), Unlock("tunnelsMutex"),
      Lock("connMutex"), Unlock("connMutex"), Socket("Close")>>

HandleConnectionOps ==
    {RejectedOps, LimitedOps, NotAllowedOps, InUseOps, ListenFailsOps, TunnelOps}

\* cleanupRoutine: one tick of its ticker
cleanupRoutineOps ==
    <<Lock("rateMutex"), Unlock("rateMutex"), RLock("tunnelsMutex"), RUnlock("tunnelsMutex"),
      RLock("connMutex"), RUnlock("connMutex")>>

Running(p) == lockPc[p] <= Len(lockProg[p])
NextOp(p) == lockProg[p][lockPc[p]]

\* sync.RWMutex: Lock waits for every holder, RLock for a writer
CanAcquire(p) ==
    \/ /\ NextOp(p).op = "Lock"
       /\ \A q \in Procs : \A e \in held[q] : e[1] # NextOp(p).mu
    \/ /\ NextOp(p).op = "RLock"
       /\ \A q \in Procs : <<NextOp(p).mu, "Lock">> \notin held[q]

LockAcquire(p) ==
    /\ Running(p)
    /\ CanAcquire(p)
    /\ held' = [held EXCEPT ![p] = @ \cup {<<NextOp(p).mu, NextOp(p).op>>}]
    /\ lockPc' = [lockPc EXCEPT ![p] = @ + 1]
    /\ UNCHANGED <<cfg, idleVars, acceptVars, lockProg, ctxVars, portVars, relayVars, rateVars, clockVars,
                   clientVars, localVars, relayDataVars>>

LockRelease(p) ==
    /\ Running(p)
    /\ NextOp(p).op \in {"Unlock", "RUnlock"}
    /\ held' = [held EXCEPT ![p] = {e \in @ : e[1] # NextOp(p).mu}]
    /\ lockPc' = [lockPc EXCEPT ![p] = @ + 1]
    /\ UNCHANGED <<cfg, idleVars, acceptVars, lockProg, ctxVars, portVars, relayVars, rateVars, clockVars,
                   clientVars, localVars, relayDataVars>>

\* A socket call: conn.Read, conn.Write, net.Listen, Close
SocketCall(p) ==
    /\ Running(p)
    /\ NextOp(p).op = "Socket"
    /\ lockPc' = [lockPc EXCEPT ![p] = @ + 1]
    /\ UNCHANGED <<cfg, idleVars, acceptVars, lockProg, held, ctxVars, portVars, relayVars, rateVars, clockVars,
                   clientVars, localVars, relayDataVars>>

LockConfigs == DataConfigs \cup ShutdownConfigs

InitLocksSpec ==
    /\ cfg \in LockConfigs
    /\ InitRelayTasks
    /\ lockProg \in {f \in [Procs -> HandleConnectionOps \cup {cleanupRoutineOps}] :
                        /\ f[0] = cleanupRoutineOps
                        /\ \A h \in Slots : f[h] \in HandleConnectionOps}
    /\ lockPc = [p \in Procs |-> 1]
    /\ held = [p \in Procs |-> {}]
    /\ InitRate
    /\ InitClock
    /\ ccfg = NoClientConfig
    /\ InitClient
    /\ InitRelayData

NextLocks ==
    \/ \E p \in Procs : LockAcquire(p)
    \/ \E p \in Procs : LockRelease(p)
    \/ \E p \in Procs : SocketCall(p)

SpecLocks == InitLocksSpec /\ [][NextLocks]_vars

\* C19: no goroutine of the relay holds two of the three map locks at once;
\* none holds a lock while it makes a socket call; and whenever a goroutine has
\* operations left, some goroutine can take its next one (no deadlock).
C19_LockDiscipline ==
    /\ [](\A p \in Procs : Cardinality({e[1] : e \in held[p]}) <= 1)
    /\ [][\A p \in Procs :
            (lockPc'[p] # lockPc[p] /\ NextOp(p).op = "Socket") => held[p] = {}]_vars
    /\ []((\E p \in Procs : Running(p)) =>
            \E p \in Procs : Running(p) /\ (NextOp(p).op \in {"Lock", "RLock"} => CanAcquire(p)))

\* C19 witness: a task holds tunnelsMutex while another task waits for it, and
\* cleanupRoutine holds a lock as well.
C19_Witness ==
    \E p, q \in Slots :
        /\ p # q
        /\ <<"tunnelsMutex", "Lock">> \in held[p]
        /\ Running(q) /\ NextOp(q) = Lock("tunnelsMutex")
        /\ held[0] # {}

\* ------------------------------------------------------------- client

\* conn.Read on the client's control connection fails: the connection was
\* closed on this side, the read deadline has passed, or the relay side closed
\* it and nothing is left to read.
ClientReadFails ==
    \/ cconn # "open"
    \/ (rdl > 0 /\ now >= rdl)
    \/ (inbox = <<>> /\ peerClosed)

\* conn.Read on the client's control connection returns data
ClientReadReady == ~ClientReadFails /\ inbox # <<>>

\* A wait that takes reconnect_delay as it is, set or not, reconnect or not.
ReconnectWaitUnchecked == ccfg.ReconnectDelay

\* connectAndTunnel: the wait before dialing again, once handleTunnel returned
ReconnectWait ==
    IF ccfg.present /\ ccfg.Reconnect
      THEN IF ccfg.ReconnectDelay > 0 THEN ccfg.ReconnectDelay
                                      ELSE DefaultReconnectSeconds
      ELSE DefaultReconnectSeconds

\* handleTunnel: the signal has the prefix CONN and two space-separated parts,
\* the second a number: a read that returned one CONN message and nothing
\* after it (payload bytes are not digits)
SignalOK(chunk) == Len(chunk) = 1 /\ chunk[1].kind = "CONN"

\* The payload bytes of what a read returned
Payload(chunk) == SelectSeq(chunk, LAMBDA m : m.kind = "DATA")

\* A copy goroutine started on an earlier connection keeps that connection.
Outlive(g) == IF g = "running" THEN "stale" ELSE g

\* connectAndTunnel: net.DialTimeout to the relay; c.conn = conn
ClientDial(ok) ==
    /\ cpc = "dial"
    /\ IF ok
         THEN /\ cconn' = "open"
              /\ inbox' = <<>>
              /\ peerClosed' = FALSE
              /\ rdl' = 0
              /\ cpc' = "send"
              /\ wakeAt' = wakeAt
              /\ copyDown' = Outlive(copyDown)
              /\ copyUp' = Outlive(copyUp)
         ELSE /\ cpc' = "sleep"
              /\ wakeAt' = now + RetrySeconds
              /\ UNCHANGED <<cconn, inbox, peerClosed, rdl, copyDown, copyUp>>
    /\ UNCHANGED <<cfg, idleVars, acceptVars, lockVars, portVars, ctxVars, relayVars, rateVars, clockVars, ccfg, response, activeEndedAt,
                   lconn, toLocal, toRelay, lost, relayDataVars>>

\* connectAndTunnel: conn.Write("TUNNEL %d"), then SetReadDeadline(now + 10 s)
ClientSend(ok) ==
    /\ cpc = "send"
    /\ IF ok
         THEN /\ cpc' = "response"
              /\ rdl' = now + ResponseSeconds
              /\ UNCHANGED <<cconn, wakeAt>>
         ELSE /\ cconn' = "closed"
              /\ cpc' = "sleep"
              /\ wakeAt' = now + RetrySeconds
              /\ rdl' = rdl
    /\ UNCHANGED <<cfg, idleVars, acceptVars, lockVars, portVars, ctxVars, relayVars, rateVars, clockVars, ccfg, inbox, peerClosed,
                   response, activeEndedAt, localVars, relayDataVars>>

\* connectAndTunnel: the read of the response fails
ClientResponseFails ==
    /\ cpc = "response"
    /\ ClientReadFails
    /\ cconn' = "closed"
    /\ cpc' = "sleep"
    /\ wakeAt' = now + RetrySeconds
    /\ UNCHANGED <<cfg, idleVars, acceptVars, lockVars, portVars, ctxVars, relayVars, rateVars, clockVars, ccfg, inbox, peerClosed, rdl,
                   response, activeEndedAt, localVars, relayDataVars>>

\* A reply that is its verb and nothing more: the bytes `OK`, the bytes `ERROR`.
MsgBare(kind) == Msg(kind, "", 0, NoAddr)

\* connectAndTunnel: response[6:] after the prefix ERROR and response[3:] after
\* the prefix OK are within the response: something follows the bare verb
SliceInRange(chunk) == chunk[1].text # "" \/ Len(chunk) > 1

\* connectAndTunnel: the response is read (the first k items buffered): ERROR
\* ends connectAndTunnel, anything else starts handleTunnel; the slice of a
\* response that is only `ERROR` or only `OK` is out of range and panics, which
\* ends the process
ClientReadResponse(k) ==
    /\ cpc = "response"
    /\ ClientReadReady
    /\ k \in 1..Len(inbox)
    /\ inbox' = SubSeq(inbox, k + 1, Len(inbox))
    /\ LET kind == inbox[1].kind
       IN  IF kind \in {"ERROR", "OK"} /\ ~SliceInRange(SubSeq(inbox, 1, k))
             THEN /\ response' = kind
                  /\ cconn' = "closed"
                  /\ cpc' = "panicked"
             ELSE IF kind = "ERROR"
             THEN /\ response' = "ERROR"
                  /\ cconn' = "closed"
                  /\ cpc' = "returned"
             ELSE /\ response' = (IF kind = "OK" THEN "OK" ELSE "unexpected")
                  /\ cconn' = cconn
                  /\ cpc' = "active"
    /\ UNCHANGED <<cfg, idleVars, acceptVars, lockVars, portVars, ctxVars, relayVars, rateVars, clockVars, ccfg, peerClosed, rdl, wakeAt,
                   activeEndedAt, localVars, relayDataVars>>

\* handleTunnel: the read of a signal fails; handleTunnel returns,
\* connectAndTunnel closes the connection and starts its wait
ClientSessionEnds ==
    /\ cpc = "active"
    /\ ClientReadFails
    /\ cconn' = "closed"
    /\ cpc' = "sleepReconnect"
    /\ wakeAt' = now + ReconnectWait
    /\ activeEndedAt' = now
    /\ UNCHANGED <<cfg, idleVars, acceptVars, lockVars, portVars, ctxVars, relayVars, rateVars, clockVars, ccfg, inbox, peerClosed, rdl,
                   response, localVars, relayDataVars>>

\* handleTunnel: a signal is read (the first k items buffered). A well-formed
\* CONN makes the client dial the local service, which takes one connection,
\* and start the two copies; anything else is dropped and the loop goes on.
ClientReadSignal(k, dialOk) ==
    /\ cpc = "active"
    /\ ClientReadReady
    /\ k \in 1..Len(inbox)
    /\ inbox' = SubSeq(inbox, k + 1, Len(inbox))
    /\ LET chunk == SubSeq(inbox, 1, k)
       IN  IF SignalOK(chunk) /\ dialOk /\ lconn = "none"
             THEN /\ lconn' = "open"
                  /\ copyDown' = "running"
                  /\ copyUp' = "running"
                  /\ lost' = lost
             ELSE /\ lost' = IF copyDown = "running" THEN lost \o Payload(chunk) ELSE lost
                  /\ UNCHANGED <<lconn, copyDown, copyUp>>
    /\ UNCHANGED <<cfg, idleVars, acceptVars, lockVars, portVars, ctxVars, relayVars, rateVars, clockVars, ccfg, cpc, cconn, peerClosed,
                   rdl, wakeAt, response, activeEndedAt, toLocal, toRelay,
                   relayDataVars>>

\* connectAndTunnel: time.Sleep returns
ClientWake ==
    /\ cpc \in {"sleep", "sleepReconnect"}
    /\ now >= wakeAt
    /\ cpc' = "dial"
    /\ wakeAt' = 0
    /\ UNCHANGED <<cfg, idleVars, acceptVars, lockVars, portVars, ctxVars, relayVars, rateVars, clockVars, ccfg, cconn, inbox, peerClosed,
                   rdl, response, activeEndedAt, localVars, relayDataVars>>

\* handleTunnel, second goroutine: io.Copy(localConn, c.conn) reads k items
\* from the control connection and writes them to the local service; if that
\* write fails the copy returns and c.conn.Close() runs
CopyDownRead(k) ==
    /\ cpc # "panicked"
    /\ copyDown = "running"
    /\ ClientReadReady
    /\ k \in 1..Len(inbox)
    /\ inbox' = SubSeq(inbox, k + 1, Len(inbox))
    /\ IF lconn = "open"
         THEN /\ toLocal' = toLocal \o Payload(SubSeq(inbox, 1, k))
              /\ UNCHANGED <<copyDown, cconn>>
         ELSE /\ copyDown' = "done"
              /\ cconn' = "closed"
              /\ toLocal' = toLocal
    /\ UNCHANGED <<cfg, idleVars, acceptVars, lockVars, portVars, ctxVars, relayVars, rateVars, clockVars, ccfg, cpc, peerClosed, rdl,
                   wakeAt, response, activeEndedAt, lconn, copyUp, toRelay, lost,
                   relayDataVars>>

\* handleTunnel, second goroutine: the read of io.Copy(localConn, c.conn) fails
\* and c.conn.Close() runs, on the connection c.conn is by then
CopyDownEnds ==
    /\ cpc # "panicked"
    /\ \/ copyDown = "stale"
       \/ copyDown = "running" /\ ClientReadFails
    /\ copyDown' = "done"
    /\ cconn' = IF cconn = "open" THEN "closed" ELSE cconn
    /\ UNCHANGED <<cfg, idleVars, acceptVars, lockVars, portVars, ctxVars, relayVars, rateVars, clockVars, ccfg, cpc, inbox, peerClosed,
                   rdl, wakeAt, response, activeEndedAt, lconn, copyUp, toLocal,
                   toRelay, lost, relayDataVars>>

\* handleTunnel, first goroutine: io.Copy(c.conn, localConn) reads a byte the
\* local service wrote and writes it on the control connection
CopyUpWrite(b) ==
    /\ cpc # "panicked"
    /\ copyUp = "running"
    /\ lconn = "open"
    /\ cconn = "open"
    /\ Len(toRelay) < MaxPayload
    /\ toRelay' = Append(toRelay, b)
    /\ UNCHANGED <<cfg, idleVars, acceptVars, lockVars, portVars, ctxVars, relayVars, rateVars, clockVars, clientVars, lconn, copyDown,
                   copyUp, toLocal, lost, relayDataVars>>

\* handleTunnel, first goroutine: the copy returns (the local service closed,
\* or the write on the control connection failed) and localConn.Close() runs
CopyUpEnds ==
    /\ cpc # "panicked"
    /\ copyUp \in {"running", "stale"}
    /\ copyUp' = "done"
    /\ lconn' = "closed"
    /\ UNCHANGED <<cfg, idleVars, acceptVars, lockVars, portVars, ctxVars, relayVars, rateVars, clockVars, clientVars, copyDown, toLocal,
                   toRelay, lost, relayDataVars>>

\* The relay side of the client's connection: once the request is sent it
\* writes a message or a payload byte; it closes the connection.
PeerMsgs == {MsgOK(80), MsgNotAllowed(80), MsgConn(80)}

PeerWrite(m) ==
    /\ cconn = "open"
    /\ cpc \in {"response", "active"}
    /\ ~peerClosed
    /\ Len(inbox) < MaxPeerMsgs
    /\ m.kind = "DATA" => Len(toLocal) + Len(lost) < MaxPayload
    /\ inbox' = Append(inbox, m)
    /\ UNCHANGED <<cfg, idleVars, acceptVars, lockVars, portVars, ctxVars, relayVars, rateVars, clockVars, ccfg, cpc, cconn, peerClosed,
                   rdl, wakeAt, response, activeEndedAt, localVars, relayDataVars>>

PeerClose ==
    /\ cconn = "open"
    /\ ~peerClosed
    /\ peerClosed' = TRUE
    /\ UNCHANGED <<cfg, idleVars, acceptVars, lockVars, portVars, ctxVars, relayVars, rateVars, clockVars, ccfg, cpc, cconn, inbox, rdl,
                   wakeAt, response, activeEndedAt, localVars, relayDataVars>>

\* ------------------------------------------------ client: specification

ClientConfigs ==
    {NoClientConfig}
    \cup [present : {TRUE}, Reconnect : BOOLEAN, ReconnectDelay : ReconnectDelays]

InitClientSpec ==
    /\ cfg \in DataConfigs
    /\ InitRelay
    /\ InitRate
    /\ InitClock
    /\ ccfg \in ClientConfigs
    /\ InitClient
    /\ InitRelayData

NextClient ==
    \/ \E ok \in BOOLEAN : ClientDial(ok)
    \/ \E ok \in BOOLEAN : ClientSend(ok)
    \/ ClientResponseFails
    \/ \E k \in 1..MaxPeerMsgs : ClientReadResponse(k)
    \/ ClientSessionEnds
    \/ \E k \in 1..MaxPeerMsgs, dialOk \in BOOLEAN : ClientReadSignal(k, dialOk)
    \/ ClientWake
    \/ \E k \in 1..MaxPeerMsgs : CopyDownRead(k)
    \/ CopyDownEnds
    \/ CopyUpEnds
    \/ \E m \in PeerMsgs : PeerWrite(m)
    \/ PeerClose
    \/ \E d \in ClientTickSteps : Tick(d)

SpecClient == InitClientSpec /\ [][NextClient]_vars

\* C8: once handleTunnel has returned the client has closed the control
\* connection and waits: reconnect_delay seconds at least with reconnect
\* enabled, the fixed 5 seconds with reconnect disabled; it dials again no
\* earlier than that, and connectAndTunnel returns on an ERROR response only.
C8_ReconnectWait ==
    LET claimed == IF ccfg.present /\ ccfg.Reconnect THEN ccfg.ReconnectDelay
                                                    ELSE 5
    IN  /\ cpc = "sleepReconnect" =>
              /\ cconn = "closed"
              /\ wakeAt >= activeEndedAt + claimed
              /\ ~(ccfg.present /\ ccfg.Reconnect) => wakeAt = activeEndedAt + 5
        /\ (activeEndedAt >= 0 /\ cpc # "sleepReconnect") => now >= activeEndedAt + claimed
        /\ cpc = "returned" => response = "ERROR"

\* With reconnect disabled, a session ended and the client has dialed again,
\* five seconds later.
C8_Witness ==
    /\ ccfg.present /\ ~ccfg.Reconnect
    /\ activeEndedAt >= 0
    /\ now = activeEndedAt + 5
    /\ cpc = "send"

\* C22: once an ACTIVE session has ended with reconnect disabled, the client
\* does not dial again (it has terminated); with reconnect enabled it has not
\* terminated.
C22_ReconnectOnlyIfEnabled ==
    activeEndedAt >= 0 =>
        IF ccfg.present /\ ccfg.Reconnect
          THEN cpc # "returned"
          ELSE cpc \notin {"dial", "send", "response", "active"}

\* ------------------------------------ client, the bytes: specification

\* The client with reconnect enabled and no delay set, the relay side writing
\* payload too, and a clock that advances five seconds at a time.
InitClientDataSpec ==
    /\ cfg \in DataConfigs
    /\ InitRelay
    /\ InitRate
    /\ InitClock
    /\ ccfg \in {c \in ClientConfigs : c.present /\ c.Reconnect /\ c.ReconnectDelay = 0}
    /\ InitClient
    /\ InitRelayData

NextClientData ==
    \/ \E ok \in BOOLEAN : ClientDial(ok)
    \/ \E ok \in BOOLEAN : ClientSend(ok)
    \/ ClientResponseFails
    \/ \E k \in 1..MaxPeerMsgs : ClientReadResponse(k)
    \/ ClientSessionEnds
    \/ \E k \in 1..MaxPeerMsgs, dialOk \in BOOLEAN : ClientReadSignal(k, dialOk)
    \/ ClientWake
    \/ \E k \in 1..MaxPeerMsgs : CopyDownRead(k)
    \/ CopyDownEnds
    \/ \E b \in Bytes : CopyUpWrite(b)
    \/ CopyUpEnds
    \/ \E m \in {MsgOK(80), MsgBare("OK"), MsgConn(80)} \cup {Data(b) : b \in Bytes} :
          PeerWrite(m)
    \/ PeerClose
    \/ Tick(RetrySeconds)

SpecClientData == InitClientDataSpec /\ [][NextClientData]_vars

\* C7: once the client has dialed the local service, no payload byte is read
\* and dropped by the signal loop: what is read from the control connection
\* is written to the local service, in order.
C7_NoPayloadLost == lost = <<>>

\* C13: in the handshake a response that begins with ERROR closes the
\* connection and ends connectAndTunnel for good; any other response that was
\* read moves the client to ACTIVE; the client is ACTIVE only after a response
\* that does not begin with ERROR.
C13_HandshakeOutcome ==
    [][ /\ (cpc = "response" /\ cpc' # "response" /\ inbox' # inbox) =>
              IF inbox[1].kind = "ERROR"
                THEN cpc' = "returned" /\ cconn' = "closed"
                ELSE cpc' = "active"
        /\ (cpc = "returned") => (cpc' = "returned" /\ cconn' = "closed")
        /\ (cpc' = "active" /\ cpc # "active") =>
              (cpc = "response" /\ inbox[1].kind # "ERROR")
      ]_vars

\* C21: the client leaves ACTIVE only on a failed read of a control connection
\* that the relay side ended (it is open on the client's side, the relay closed
\* it and nothing is left to read); while ACTIVE and the relay side has not
\* closed, the client does not close the control connection itself, whatever
\* happens to a relayed connection.
C21_ActiveEndsOnRelayOnly ==
    [][ /\ (cpc = "active" /\ cpc' # "active") =>
              (cconn = "open" /\ peerClosed /\ inbox = <<>>)
        /\ (cpc = "active" /\ cpc' = "active" /\ cconn = "open" /\ ~peerClosed) =>
              cconn' = "open"
      ]_vars

\* C27: a copy goroutine left over from an earlier session (the client has
\* dialed again since it was started) neither closes nor reads nor writes the
\* control connection the client has now.
C27_OldCopyKeepsOldConn ==
    [][ /\ (copyDown = "stale" /\ copyDown' # copyDown) =>
              (cconn' = cconn /\ inbox' = inbox)
        /\ (copyUp = "stale" /\ copyUp' # copyUp) =>
              (cconn' = cconn /\ toRelay' = toRelay)
      ]_vars

\* ------------------------- client, the local connection: specification

\* connectAndTunnel and handleTunnel: a step of the client's main goroutine
ClientMainStep ==
    \/ \E ok \in BOOLEAN : ClientDial(ok)
    \/ \E ok \in BOOLEAN : ClientSend(ok)
    \/ ClientResponseFails
    \/ \E k \in 1..MaxPeerMsgs : ClientReadResponse(k)
    \/ ClientSessionEnds
    \/ \E k \in 1..MaxPeerMsgs, dialOk \in BOOLEAN : ClientReadSignal(k, dialOk)
    \/ ClientWake

\* handleTunnel, second goroutine: a step of io.Copy(localConn, c.conn) and of
\* the c.conn.Close() after it
CopyDownStep ==
    \/ \E k \in 1..MaxPeerMsgs : CopyDownRead(k)
    \/ CopyDownEnds

\* Time passes beyond the last tick the clock counts: the same step as Tick,
\* with the clock kept where it is and the client's pending deadlines (the
\* read deadline, the end of the sleep) brought d seconds nearer instead. The
\* client compares the time with a deadline and never reads it alone, so the
\* step stands for a tick of a clock that runs for as long as the process.
TickOn(d) ==
    /\ ticks = MaxTicks
    /\ rdl' = IF rdl > now THEN rdl - d ELSE rdl
    /\ wakeAt' = IF wakeAt > now THEN wakeAt - d ELSE wakeAt
    /\ activeEndedAt' = IF activeEndedAt > d THEN activeEndedAt - d
                        ELSE IF activeEndedAt >= 0 THEN 0 ELSE activeEndedAt
    /\ UNCHANGED <<cfg, idleVars, acceptVars, lockVars, portVars, ctxVars, relayVars, rateVars, clockVars, ccfg, cpc, cconn, inbox,
                   peerClosed, response, localVars, relayDataVars>>

\* time.Sleep and the read deadline run on the wall clock
TimePasses == Tick(RetrySeconds) \/ TickOn(RetrySeconds)

\* The process of the client has ended: connectAndTunnel returned to main,
\* or panicked; its sockets are gone with it.
ProcessEnded == cpc \in {"returned", "panicked"}

\* The client of SpecClientData, one payload byte value, with its goroutines
\* scheduled and time passing without end. The first goroutine is blocked in the Read of
\* io.Copy(c.conn, localConn) until the local service writes or closes, and
\* the relay side writes and closes as it likes: no step of theirs is forced.
NextLocalClose ==
    \/ ClientMainStep
    \/ CopyDownStep
    \/ CopyUpWrite(1)
    \/ CopyUpEnds
    \/ \E m \in {MsgOK(80), MsgConn(80), Data(1)} : PeerWrite(m)
    \/ PeerClose
    \/ TimePasses

SpecLocalClose ==
    /\ InitClientDataSpec
    /\ [][NextLocalClose]_vars
    /\ WF_vars(ClientMainStep)
    /\ WF_vars(CopyDownStep)
    /\ WF_vars(TimePasses)

\* C26: a local connection that is open while the client's control connection
\* is closed is eventually closed, by the client or with its process.
C26_LocalConnClosed ==
    (lconn = "open" /\ cconn = "closed") ~> (lconn = "closed" \/ ProcessEnded)

====
